---------------------------- MODULE Spec2Model ----------------------------
(***************************************************************************)
(* Nolus Ambassadors dashboard: the 3-day "smart" impression collector,    *)
(* the monthly API call counter and the ready-for-update selection.        *)
(*                                                                         *)
(* Files of the program are variables: tweets_data (tweets_data.json) and  *)
(* api_count (api_count.json).  The collector (x_collector.py) runs as a   *)
(* separate process whose steps interleave with the dashboard (app.py).    *)
(*                                                                         *)
(* Time.  A timestamp string written by datetime.now().isoformat() is an   *)
(* integer number of ticks, TicksPerDay ticks a day.  datetime.isoformat   *)
(* and datetime.fromisoformat are inverse on these naive timestamps and    *)
(* the lexicographic order of the strings is the order of the instants,    *)
(* so a string is represented by its instant.  A submission reads the      *)
(* clock at the first tick of the day, a collector run at a later tick of  *)
(* the day: a fetch is never at the very instant of the submission.        *)
(***************************************************************************)
EXTENDS Integers, Sequences, FiniteSets, TLC

\* ---------------------------------------------------------------- bounds
MaxDay == 4
MaxTweets == 2
MaxCalls == 1
MaxSubmitDay == 1
MaxMonth == 2
MaxIncrements == 4
MaxManual == 1
MaxRows == 3
MaxServiceDay == 1
HoursPerDay == 2
HourTicks == 2
MaxBoardRows == 2
MaxSpare == 2
MaxStatTweets == 2
MaxUpdaters == 4
MaxSessions == 2
TicksPerDay == 2
NearLimit == 99

\* ------------------------------------------------------ program constants
WaitDays == 3
API_LIMIT == 100
MIN_VIEWS == 500

Ambassadors == {"Tony", "Odi"}
TweetIds == 1..MaxTweets
FetchVals == {0, 500}

VARIABLES
    day,            \* the wall clock, in days
    month,          \* datetime.now().strftime("%Y-%m")
    tweets_data,    \* tweets_data.json: a dict ambassador -> list of tweets
    api_count,      \* api_count.json: month -> calls made
    pc,             \* where the collector process is
    ready_tweets,   \* update_smart_impressions: the list it got
    work,           \* the collector's tweets_data in memory
    idx,            \* the collector's loop position
    attempts,       \* the fetches the running batch has issued, in order
    c_start,        \* the month's count when the batch started
    n_inc,          \* increment_api_count calls in the current month
    last_ret,       \* what the last increment_api_count returned
    item,           \* SpecReady: the stored item the selections are applied to
    clock,          \* SpecReady: datetime.now() of the selections
    applied,        \* SpecReady: the selections that ran
    selected,       \* SpecReady: the selections that returned the item
    x_table,        \* UpdateService: the rows of the table "ambassadors"
    reddit_table,   \* UpdateService: the rows of the table "reddit"
    daily,          \* UpdateService: the rows of the table "daily_impressions"
    hour,           \* UpdateService: datetime.now(), in hours
    result,         \* UpdateService: what the last call returned
    board,          \* UpdateService: the leaderboard the last call returned
    n_manual,       \* update_tweet_metrics calls so far
    second,         \* a second collector process: its position and memory
    inc,            \* the increment_api_count calls between read and write
    sheet           \* the dashboard's sheet updater: handle and processes

vars == <<day, month, tweets_data, api_count, pc, ready_tweets, work, idx,
          attempts, c_start, n_inc, last_ret, item, clock, applied, selected,
          x_table, reddit_table, daily, hour, result, board, n_manual,
          second, inc, sheet>>

collector_vars == <<pc, ready_tweets, work, idx, attempts, c_start>>
quota_vars == <<n_inc, last_ret>>
ready_vars == <<item, clock, applied, selected>>
service_vars == <<x_table, reddit_table, daily, hour, result, board>>
proc_vars == <<second, inc, sheet>>
other_vars == <<service_vars, n_manual, proc_vars>>
json_vars == <<day, month, tweets_data, api_count, collector_vars, quota_vars,
               ready_vars, n_manual, proc_vars>>

\* ---------------------------------------------------------------- clock
\* datetime.now() read by a submission
NowSubmit == day * TicksPerDay
\* datetime.now() read by a collector run or a dashboard render
NowLater == day * TicksPerDay + 1

\* timedelta(days=3)
ThreeDays == WaitDays * TicksPerDay

\* A stored submitted_date is an ISO string, modelled by its instant, or
\* the empty string (also what tweet.get('submitted_date', '') gives for a
\* missing key), or a string datetime.fromisoformat raises on.
NO_DATE == 0 - 1000
BAD_DATE == 0 - 1001

\* "if not submitted_date_str: continue" and the try around fromisoformat
Parses(submitted_date_str) == submitted_date_str \notin {NO_DATE, BAD_DATE}

\* ------------------------------------------------------- dict operations
\* A dict is a sequence of [name, tweets] entries in insertion order.
HasKey(d, k) == \E j \in 1..Len(d) : d[j].name = k

KeyIndex(d, k) == CHOOSE j \in 1..Len(d) : d[j].name = k

DictGet(d, k) == d[KeyIndex(d, k)].tweets

DictPut(d, k, v) ==
    IF HasKey(d, k)
    THEN [d EXCEPT ![KeyIndex(d, k)].tweets = v]
    ELSE Append(d, [name |-> k, tweets |-> v])

RECURSIVE TagAll(_, _, _)
TagAll(name, ts, k) ==
    IF k > Len(ts) THEN <<>>
    ELSE <<[ambassador |-> name, pos |-> k, tweet |-> ts[k]]>>
         \o TagAll(name, ts, k + 1)

\* for ambassador_name, tweets in tweets_data.items(): for tweet in tweets
RECURSIVE Items(_)
Items(d) ==
    IF d = <<>> THEN <<>>
    ELSE TagAll(Head(d).name, Head(d).tweets, 1) \o Items(Tail(d))

AllTweets(d) == {Items(d)[j].tweet : j \in 1..Len(Items(d))}

\* sum(len(tweets) for tweets in tweets_data.values())
TotalTweets(d) == Len(Items(d))

\* the first tweet of the list with this tweet_id, 0 when there is none
FindTweet(ts, id) ==
    IF \E k \in 1..Len(ts) : ts[k].tweet_id = id
    THEN CHOOSE k \in 1..Len(ts) :
            /\ ts[k].tweet_id = id
            /\ \A j \in 1..(k - 1) : ts[j].tweet_id # id
    ELSE 0

\* tweets_data[ambassador][k] = t
SetTweet(d, ambassador, k, t) ==
    [d EXCEPT ![KeyIndex(d, ambassador)].tweets[k] = t]

\* ------------------------------------------------------------ the clock
\* a day passes, within the month
Tick ==
    /\ day < MaxDay
    /\ day' = day + 1
    /\ UNCHANGED <<month, tweets_data, api_count, pc, ready_tweets, work, idx,
                   attempts, c_start, n_inc, last_ret, item, clock,
                   applied, selected, other_vars>>

\* No second collector runs, no increment_api_count call is between its
\* read and its write, and no sheet updater was started.
IncProcs == {"dashboard", "collector"}

ProcsUnused ==
    /\ second = [pc |-> "idle", ready_tweets |-> <<>>, work |-> <<>>, idx |-> 0,
                 attempts |-> <<>>]
    /\ inc = [p \in IncProcs |->
                [pc |-> "idle", current_month |-> 0,
                 data |-> [m \in 0..MaxMonth |-> 0]]]
    /\ sheet = [handle |-> 0, alive |-> {}, started |-> 0, sessions |-> {},
                running |-> FALSE]

\* The UpdateService has done nothing: its tables are empty.
ServiceUnused ==
    /\ x_table = <<>>
    /\ reddit_table = <<>>
    /\ daily = <<>>
    /\ hour = 0
    /\ result = [op |-> "none", ok |-> TRUE, msg |-> ""]
    /\ board = [fn |-> "none", rows |-> <<>>]
    /\ n_manual = 0
    /\ ProcsUnused

\* ------------------------------------------------------------ add_tweet
TweetExists(d, id) == \E t \in AllTweets(d) : t.tweet_id = id

\* lines 644-654. submitted_date and last_updated are two reads of the clock
\* one after the other; both get the tick of the submission: a stored
\* last_updated is compared with submitted_date only when impressions > 0,
\* and add_tweet stores impressions 0 (line 863), so an update has
\* overwritten last_updated by then.
NewTweet(id, t) ==
    [tweet_id |-> id, impressions |-> 0, submitted_date |-> t,
     last_updated |-> t, final_update |-> FALSE]

\* add_tweet of app.py. Submissions stop after MaxSubmitDay, tweet ids are
\* taken in order, and the first submission is Tony's (the ambassadors are
\* interchangeable: every state has a twin with the two names swapped).
add_tweet(ambassador_name, id) ==
    /\ day <= MaxSubmitDay
    /\ id <= TotalTweets(tweets_data) + 1
    /\ tweets_data = <<>> => ambassador_name = "Tony"
    /\ IF TweetExists(tweets_data, id)
       THEN UNCHANGED tweets_data
       ELSE tweets_data' =
              DictPut(tweets_data, ambassador_name,
                      (IF HasKey(tweets_data, ambassador_name)
                       THEN DictGet(tweets_data, ambassador_name)
                       ELSE <<>>) \o <<NewTweet(id, NowSubmit)>>)
    /\ UNCHANGED <<day, month, api_count, pc, ready_tweets, work, idx,
                   attempts, c_start, n_inc, last_ret, item, clock,
                   applied, selected, other_vars>>

\* ------------------------------------------------------ api_count.json
\* data.get(current_month, 0): a month with no stored count reads as 0
get_api_count(data, m) == data[m]

\* increment_api_count without the load of the stored counts
increment_api_count_Reset(data, m) == [data EXCEPT ![m] = 1]

\* increment_api_count, the function of x_collector.py: the file after
\* the call; the call returns the new count of the month
increment_api_count(data, m) == [data EXCEPT ![m] = data[m] + 1]

\* increment_api_count, the copy of app.py
app_increment_api_count(data, m) == [data EXCEPT ![m] = data[m] + 1]

\* The model stops starting batches once MaxCalls calls were counted.
MayStart == get_api_count(api_count, month) < NearLimit + MaxCalls

\* ---------------------------------------------- fetch_tweet_impressions
\* What client.get_tweet does: it raises, or it returns a response with
\* data (whose public_metrics is a dict, or is missing) or without data.
Raised == {"NotFound", "Unauthorized", "TooManyRequests", "Exception"}

Outcomes ==
    [kind : Raised \cup {"no_data", "no_metrics"}, val : {0}]
    \cup [kind : {"data"}, val : FetchVals]

\* The result of fetch_tweet_impressions: ok is "impressions is not None",
\* data is api_count.json after the call, calls the number of
\* increment_api_count calls it made.
fetch_tweet_impressions(data, m, o) ==
    IF o.kind \in Raised
    THEN \* get_tweet raised: the handler counts the call
         [ok |-> FALSE, impressions |-> 0,
          data |-> increment_api_count(data, m), calls |-> 1]
    ELSE LET counted == increment_api_count(data, m) IN
         IF o.kind = "data"
         THEN [ok |-> TRUE, impressions |-> o.val, data |-> counted, calls |-> 1]
         ELSE IF o.kind = "no_data"
         THEN [ok |-> FALSE, impressions |-> 0, data |-> counted, calls |-> 1]
         ELSE \* tweet.data.public_metrics is None: metrics.get raises inside
              \* the try block, after the count, and "except Exception"
              \* counts again
              [ok |-> FALSE, impressions |-> 0,
               data |-> increment_api_count(counted, m), calls |-> 2]

\* ------------------------------------------- get_tweets_ready_for_update
\* ready_for_update.sort(key=lambda x: x['submitted_date']): a stable sort
RECURSIVE InsertBySubmitted(_, _)
InsertBySubmitted(e, s) ==
    IF s = <<>> THEN <<e>>
    ELSE IF e.submitted_date < Head(s).submitted_date
         THEN <<e>> \o s
         ELSE <<Head(s)>> \o InsertBySubmitted(e, Tail(s))

RECURSIVE SortBySubmitted(_)
SortBySubmitted(s) ==
    IF s = <<>> THEN <<>>
    ELSE InsertBySubmitted(s[Len(s)], SortBySubmitted(SubSeq(s, 1, Len(s) - 1)))

\* the selection with a 2-day wait
IsReady_Young(tweet, now) ==
    /\ tweet.submitted_date <= now - (WaitDays - 1) * TicksPerDay
    /\ ~tweet.final_update
    /\ (tweet.impressions = 0 \/ tweet.last_updated = tweet.submitted_date)

\* the selection with < for <=
IsReady_Strict(tweet, now) ==
    /\ tweet.submitted_date < now - ThreeDays
    /\ ~tweet.final_update
    /\ (tweet.impressions = 0 \/ tweet.last_updated = tweet.submitted_date)

\* the condition of x_collector.py lines 174 and 181
IsReady(tweet, now) ==
    /\ Parses(tweet.submitted_date)
    /\ tweet.submitted_date <= now - ThreeDays
    /\ ~tweet.final_update
    /\ (tweet.impressions = 0 \/ tweet.last_updated = tweet.submitted_date)

RECURSIVE ReadyEntries(_, _)
ReadyEntries(items, now) ==
    IF items = <<>> THEN <<>>
    ELSE (IF IsReady(Head(items).tweet, now)
          THEN <<[ambassador |-> Head(items).ambassador,
                  tweet_id |-> Head(items).tweet.tweet_id,
                  submitted_date |-> Head(items).tweet.submitted_date]>>
          ELSE <<>>)
         \o ReadyEntries(Tail(items), now)

\* get_tweets_ready_for_update of x_collector.py
get_tweets_ready_for_update(data, now) ==
    SortBySubmitted(ReadyEntries(Items(data), now))

\* ------------------------------------------------ update_smart_impressions
Attempt(id, res, before) ==
    [tweet_id |-> id, ok |-> res.ok, impressions |-> res.impressions,
     at |-> NowLater, before |-> before]

\* lines 200-207: the ready list; nothing to do when it is empty
SmartStart ==
    /\ pc = "idle"
    /\ MayStart
    /\ ready_tweets' = get_tweets_ready_for_update(tweets_data, NowLater)
    /\ pc' = IF ready_tweets' = <<>> THEN "idle" ELSE "smart_init"
    /\ IF ready_tweets' = <<>>
       THEN UNCHANGED <<c_start>>
       ELSE c_start' = get_api_count(api_count, month)
    /\ attempts' = <<>>
    /\ UNCHANGED <<day, month, tweets_data, api_count, work, idx, n_inc, last_ret, item, clock,
                   applied, selected, other_vars>>

\* lines 217-224: init_x_api, then the second load of tweets_data.json
SmartLoad(client_ok) ==
    /\ pc = "smart_init"
    /\ IF client_ok
       THEN /\ work' = tweets_data
            /\ idx' = 1
            /\ pc' = "smart_loop"
            /\ UNCHANGED ready_tweets
            /\ UNCHANGED c_start
       ELSE /\ pc' = "idle"
            /\ ready_tweets' = <<>>
            /\ c_start' = 0
            /\ UNCHANGED <<work, idx>>
    /\ UNCHANGED <<day, month, tweets_data, api_count, attempts, n_inc, last_ret, item, clock,
                   applied, selected, other_vars>>

\* the update without the final mark
FinalUpdate_NotFinal(tweet, impressions, now) ==
    [tweet EXCEPT !.impressions = impressions, !.last_updated = now]

\* lines 240-242: the final 3-day update of a tweet
FinalUpdate(tweet, impressions, now) ==
    [tweet EXCEPT !.impressions = impressions, !.last_updated = now,
                  !.final_update = TRUE]

\* the loop taking a failed fetch for 0 impressions
SmartApply_ZeroOnFailure(tweet, res, now) ==
    FinalUpdate(tweet, res.impressions, now)

\* lines 238-247: what the loop does to the tweet with the fetch's result
SmartApply(tweet, res, now) ==
    IF res.ok THEN FinalUpdate(tweet, res.impressions, now) ELSE tweet

\* lines 227-252: one iteration of the loop over ready_tweets
SmartFetch(o) ==
    /\ pc = "smart_loop"
    /\ idx <= Len(ready_tweets)
    /\ LET r == ready_tweets[idx]
           ts == DictGet(work, r.ambassador)
           k == FindTweet(ts, r.tweet_id)
           res == fetch_tweet_impressions(api_count, month, o)
       IN IF k = 0
          THEN UNCHANGED <<work, api_count, attempts>>
          ELSE /\ api_count' = res.data
               /\ attempts' = Append(attempts, Attempt(r.tweet_id, res, ts[k]))
               /\ work' = SetTweet(work, r.ambassador, k,
                                    SmartApply(ts[k], res, NowLater))
    /\ idx' = idx + 1
    /\ UNCHANGED <<day, month, tweets_data, pc, ready_tweets, c_start, n_inc,
                   last_ret, item, clock,
                   applied, selected, other_vars>>

\* lines 254-258: save_tweets_data(tweets_data)
SmartSave ==
    /\ pc = "smart_loop"
    /\ idx > Len(ready_tweets)
    /\ tweets_data' = work
    /\ pc' = "idle"
    /\ ready_tweets' = <<>>
    /\ work' = <<>>
    /\ idx' = 0
    /\ attempts' = <<>>
    /\ c_start' = 0
    /\ UNCHANGED <<day, month, api_count, n_inc, last_ret, item, clock,
                   applied, selected, other_vars>>

\* -------------------------------------------------- update_all_impressions
\* lines 268-295: init_x_api and the load; it returns False with no client,
\* with no data or with no tweet.  (The prompt of line 287 needs more than
\* 100 stored tweets.)
LegacyStart(client_ok) ==
    /\ pc = "idle"
    /\ MayStart
    /\ IF client_ok /\ tweets_data # <<>> /\ TotalTweets(tweets_data) # 0
       THEN /\ work' = tweets_data
            /\ idx' = 1
            /\ pc' = "legacy_loop"
            /\ attempts' = <<>>
            /\ c_start' = get_api_count(api_count, month)
       ELSE UNCHANGED <<work, idx, pc, attempts, c_start>>
    /\ UNCHANGED <<day, month, tweets_data, api_count, ready_tweets, n_inc, last_ret, item, clock,
                   applied, selected, other_vars>>

\* the legacy update rewriting the tweet as a fresh, not final one
LegacyUpdate_Unfinal(tweet, impressions, now) ==
    [tweet EXCEPT !.impressions = impressions, !.last_updated = now,
                  !.final_update = FALSE]

\* lines 313-314: the legacy update of a tweet
LegacyUpdate(tweet, impressions, now) ==
    [tweet EXCEPT !.impressions = impressions, !.last_updated = now]

\* lines 310-320: what the loop does to the tweet with the fetch's result
LegacyApply(tweet, res, now) ==
    IF res.ok THEN LegacyUpdate(tweet, res.impressions, now) ELSE tweet

\* lines 301-326: one iteration of the loop over all the tweets
LegacyFetch(o) ==
    /\ pc = "legacy_loop"
    /\ idx <= TotalTweets(work)
    /\ LET it == Items(work)[idx]
           res == fetch_tweet_impressions(api_count, month, o)
       IN /\ api_count' = res.data
          /\ attempts' = Append(attempts, Attempt(it.tweet.tweet_id, res, it.tweet))
          /\ work' = SetTweet(work, it.ambassador, it.pos,
                               LegacyApply(it.tweet, res, NowLater))
    /\ idx' = idx + 1
    /\ UNCHANGED <<day, month, tweets_data, pc, ready_tweets, c_start, n_inc,
                   last_ret, item, clock,
                   applied, selected, other_vars>>

\* lines 328-334: save_tweets_data(tweets_data)
LegacySave ==
    /\ pc = "legacy_loop"
    /\ idx > TotalTweets(work)
    /\ tweets_data' = work
    /\ pc' = "idle"
    /\ work' = <<>>
    /\ idx' = 0
    /\ attempts' = <<>>
    /\ c_start' = 0
    /\ UNCHANGED <<day, month, api_count, ready_tweets, n_inc, last_ret, item, clock,
                   applied, selected, other_vars>>

\* ------------------------------------------------- the dashboard (app.py)
\* the condition of app.py lines 130 and 137
AppIsReady(tweet, now) ==
    /\ Parses(tweet.submitted_date)
    /\ tweet.submitted_date <= now - ThreeDays
    /\ ~tweet.final_update
    /\ (tweet.impressions = 0 \/ tweet.last_updated = tweet.submitted_date)

RECURSIVE AppReadyEntries(_, _)
AppReadyEntries(items, now) ==
    IF items = <<>> THEN <<>>
    ELSE (IF AppIsReady(Head(items).tweet, now)
          THEN <<[ambassador |-> Head(items).ambassador,
                  tweet_id |-> Head(items).tweet.tweet_id,
                  submitted_date |-> Head(items).tweet.submitted_date]>>
          ELSE <<>>)
         \o AppReadyEntries(Tail(items), now)

\* get_tweets_ready_for_update of app.py
app_get_tweets_ready_for_update(data, now) ==
    SortBySubmitted(AppReadyEntries(Items(data), now))

\* the statistics with the undated tweets counted as already updated
get_smart_update_stats_UndatedAsUpdated(data, now) ==
    LET items == Items(data)
        under(t) == Parses(t.submitted_date) /\ t.submitted_date > now - ThreeDays
        ready(t) == /\ Parses(t.submitted_date)
                    /\ ~under(t)
                    /\ ~t.final_update
                    /\ (t.impressions = 0 \/ t.last_updated = t.submitted_date)
        done(t) == ~under(t) /\ ~ready(t)
    IN [total_tweets |-> TotalTweets(data),
        tweets_under_3_days |->
            Cardinality({j \in 1..Len(items) : under(items[j].tweet)}),
        tweets_ready_for_update |->
            Cardinality({j \in 1..Len(items) : ready(items[j].tweet)}),
        tweets_already_updated |->
            Cardinality({j \in 1..Len(items) : done(items[j].tweet)})]

\* get_smart_update_stats of app.py
get_smart_update_stats(data, now) ==
    LET items == Items(data)
        under(t) == Parses(t.submitted_date) /\ t.submitted_date > now - ThreeDays
        ready(t) == /\ Parses(t.submitted_date)
                    /\ ~under(t)
                    /\ ~t.final_update
                    /\ (t.impressions = 0 \/ t.last_updated = t.submitted_date)
        done(t) == Parses(t.submitted_date) /\ ~under(t) /\ ~ready(t)
    IN [total_tweets |-> TotalTweets(data),
        tweets_under_3_days |->
            Cardinality({j \in 1..Len(items) : under(items[j].tweet)}),
        tweets_ready_for_update |->
            Cardinality({j \in 1..Len(items) : ready(items[j].tweet)}),
        tweets_already_updated |->
            Cardinality({j \in 1..Len(items) : done(items[j].tweet)})]

\* app.py line 950: the API-settings usage panel
SettingsRemaining(calls) == IF API_LIMIT - calls > 0 THEN API_LIMIT - calls ELSE 0

\* app.py line 379: the limit check of show_smart_api_dashboard
SmartDashboardRemaining(calls) == API_LIMIT - calls

\* api_call_tracker.py line 133: remaining_calls of get_monthly_api_usage,
\* for a month whose logged total_calls is total
MonthlyUsageRemaining(total) == IF API_LIMIT - total > 0 THEN API_LIMIT - total ELSE 0

\* --------------------------------------- UpdateService.get_ready_tweets
\* the query comparing with now, not with the cutoff
ServiceIsReady_NoCutoff(row, now) ==
    /\ row.date_posted_null
    /\ row.submitted_date < now

\* .is_("date_posted", "null").lt("Submitted_Date", cutoff_iso)
ServiceIsReady(row, now) ==
    /\ row.date_posted_null
    /\ row.submitted_date < now - ThreeDays

get_ready_tweets(table, now) == SelectSeq(table, LAMBDA row : ServiceIsReady(row, now))

Init ==
    /\ day = 0
    /\ month = 0
    /\ tweets_data = <<>>
    /\ api_count = [m \in 0..MaxMonth |-> IF m = 0 THEN NearLimit ELSE 0]
    /\ pc = "idle"
    /\ ready_tweets = <<>>
    /\ work = <<>>
    /\ idx = 0
    /\ attempts = <<>>
    /\ c_start = 0
    /\ n_inc = 0
    /\ last_ret = 0
    /\ item = NewTweet(1, 0)
    /\ clock = 0
    /\ applied = {}
    /\ selected = {}
    /\ ServiceUnused

Next ==
    \/ Tick
    \/ \E a \in Ambassadors, id \in TweetIds : add_tweet(a, id)
    \/ SmartStart
    \/ \E client_ok \in BOOLEAN : SmartLoad(client_ok)
    \/ \E o \in Outcomes : SmartFetch(o)
    \/ SmartSave
    \/ \E client_ok \in BOOLEAN : LegacyStart(client_ok)
    \/ \E o \in Outcomes : LegacyFetch(o)
    \/ LegacySave

Spec == Init /\ [][Next]_vars

\* ------------------------------------------------------------- SpecFinal
\* update_tweet_metrics of app.py (lines 743-763): the first tweet with the
\* id gets the impressions and last_updated = now, and the file is saved;
\* nothing is saved when no tweet has the id.
ManualUpdate(tweet, impressions, now) ==
    [tweet EXCEPT !.impressions = impressions, !.last_updated = now]

update_tweet_metrics(id, impressions) ==
    /\ n_manual < MaxManual
    /\ n_manual' = n_manual + 1
    /\ LET items == Items(tweets_data)
           hits == {j \in 1..Len(items) : items[j].tweet.tweet_id = id}
       IN IF hits = {}
          THEN UNCHANGED tweets_data
          ELSE LET it == items[CHOOSE j \in hits : \A k \in hits : j <= k]
               IN tweets_data' =
                     SetTweet(tweets_data, it.ambassador, it.pos,
                              ManualUpdate(it.tweet, impressions, NowSubmit))
    /\ UNCHANGED <<day, month, api_count, collector_vars, quota_vars,
                   ready_vars, service_vars, proc_vars>>

\* A store a smart batch has left before the month's count was reset to
\* NearLimit: Tony's tweet, submitted 3 days before day 0, got its final
\* update on day 0.
FinalizedStore ==
    <<[name |-> "Tony",
       tweets |-> <<[tweet_id |-> 1, impressions |-> 500,
                     submitted_date |-> 0 - ThreeDays,
                     last_updated |-> 1, final_update |-> TRUE]>>]>>

InitFinal ==
    /\ day = 0
    /\ month = 0
    /\ tweets_data = FinalizedStore
    /\ api_count = [m \in 0..MaxMonth |-> IF m = 0 THEN NearLimit ELSE 0]
    /\ pc = "idle"
    /\ ready_tweets = <<>>
    /\ work = <<>>
    /\ idx = 0
    /\ attempts = <<>>
    /\ c_start = 0
    /\ n_inc = 0
    /\ last_ret = 0
    /\ item = NewTweet(1, 0)
    /\ clock = 0
    /\ applied = {}
    /\ selected = {}
    /\ ServiceUnused

NextFinal ==
    \/ Next
    \/ \E id \in TweetIds, v \in FetchVals : update_tweet_metrics(id, v)

SpecFinal == InitFinal /\ [][NextFinal]_vars

\* -------------------------------------------------------------- SpecLive
\* The collector invoked again and again on a store of two tweets submitted
\* on day 0, with quota left at all times: the legacy batches and the
\* failing fetches stop while the calls that finalize the stored tweets are
\* still within the month's limit.
LiveStore ==
    <<[name |-> "Tony", tweets |-> <<NewTweet(1, 0)>>],
      [name |-> "Odi", tweets |-> <<NewTweet(2, 0)>>]>>

LiveCalls(n) ==
    get_api_count(api_count, month) + n <= NearLimit - TotalTweets(tweets_data)

InitLive ==
    /\ day = 0
    /\ month = 0
    /\ tweets_data = LiveStore
    /\ api_count = [m \in 0..MaxMonth |->
                      IF m = 0 THEN NearLimit - 2 - 2 * MaxSpare ELSE 0]
    /\ pc = "idle"
    /\ ready_tweets = <<>>
    /\ work = <<>>
    /\ idx = 0
    /\ attempts = <<>>
    /\ c_start = 0
    /\ n_inc = 0
    /\ last_ret = 0
    /\ item = NewTweet(1, 0)
    /\ clock = 0
    /\ applied = {}
    /\ selected = {}
    /\ ServiceUnused

SmartFetched == \E v \in FetchVals : SmartFetch([kind |-> "data", val |-> v])

SmartFetchFailed ==
    /\ LiveCalls(2)
    /\ \E o \in Outcomes : o.kind # "data" /\ SmartFetch(o)

LegacyStartLive ==
    /\ LiveCalls(2 * TotalTweets(tweets_data))
    /\ LegacyStart(TRUE)

NextLive ==
    \/ Tick
    \/ SmartStart
    \/ \E client_ok \in BOOLEAN : SmartLoad(client_ok)
    \/ SmartFetched
    \/ SmartFetchFailed
    \/ SmartSave
    \/ LegacyStartLive
    \/ \E o \in Outcomes : LegacyFetch(o)
    \/ LegacySave
    \/ \E id \in TweetIds, v \in FetchVals : update_tweet_metrics(id, v)

\* The collector is run again whenever it is idle and every started batch
\* runs to its end; the client is initialised and a fetch succeeds
\* infinitely often when tried infinitely often; time passes.
FairLive ==
    /\ WF_vars(Tick)
    /\ WF_vars(SmartStart)
    /\ SF_vars(SmartLoad(TRUE))
    /\ SF_vars(SmartFetched)
    /\ WF_vars(SmartSave)
    /\ WF_vars(\E o \in Outcomes : LegacyFetch(o))
    /\ WF_vars(LegacySave)

SpecLive == InitLive /\ [][NextLive]_vars /\ FairLive

\* ------------------------------------------------------------- SpecAbort
\* The collector process is killed, or an exception leaves
\* update_smart_impressions, inside the loop: save_tweets_data (line 254) is
\* not reached and the loaded data is lost with the process.  (attempts
\* keeps what the batch fetched until the next batch starts.)
SmartAbort ==
    /\ pc = "smart_loop"
    /\ pc' = "idle"
    /\ ready_tweets' = <<>>
    /\ work' = <<>>
    /\ idx' = 0
    /\ c_start' = 0
    /\ UNCHANGED <<day, month, tweets_data, api_count, attempts, n_inc, last_ret,
                   item, clock, applied, selected, other_vars>>

NextAbort ==
    \/ Tick
    \/ SmartStart
    \/ \E client_ok \in BOOLEAN : SmartLoad(client_ok)
    \/ \E o \in Outcomes : SmartFetch(o)
    \/ SmartSave
    \/ SmartAbort

SpecAbort == InitLive /\ [][NextAbort]_vars

\* ----------------------------------------------------------- SpecOverlap
\* run_smart_x_collector (app.py lines 252-322) starts "x_collector.py
\* --smart" with subprocess.Popen whenever it is called; the collector can
\* also be started from a shell.  Neither looks for a running collector, so
\* a second process runs update_smart_impressions beside the first one.
second_rest == <<day, month, collector_vars, quota_vars, ready_vars, service_vars,
                 n_manual, inc, sheet>>

\* lines 200-207 in the second process
SecondStart ==
    /\ second.pc = "idle"
    /\ MayStart
    /\ LET ready == get_tweets_ready_for_update(tweets_data, NowLater)
       IN second' = [second EXCEPT
                        !.ready_tweets = ready,
                        !.pc = IF ready = <<>> THEN "idle" ELSE "smart_init",
                        !.attempts = <<>>]
    /\ UNCHANGED <<tweets_data, api_count, second_rest>>

\* lines 217-224 in the second process
SecondLoad(client_ok) ==
    /\ second.pc = "smart_init"
    /\ second' = IF client_ok
                 THEN [second EXCEPT !.work = tweets_data, !.idx = 1,
                                     !.pc = "smart_loop"]
                 ELSE [second EXCEPT !.pc = "idle", !.ready_tweets = <<>>]
    /\ UNCHANGED <<tweets_data, api_count, second_rest>>

\* lines 227-252 in the second process
SecondFetch(o) ==
    /\ second.pc = "smart_loop"
    /\ second.idx <= Len(second.ready_tweets)
    /\ LET r == second.ready_tweets[second.idx]
           ts == DictGet(second.work, r.ambassador)
           k == FindTweet(ts, r.tweet_id)
           res == fetch_tweet_impressions(api_count, month, o)
       IN IF k = 0
          THEN /\ second' = [second EXCEPT !.idx = @ + 1]
               /\ UNCHANGED api_count
          ELSE /\ api_count' = res.data
               /\ second' = [second EXCEPT
                     !.idx = @ + 1,
                     !.attempts = Append(@, Attempt(r.tweet_id, res, ts[k])),
                     !.work = SetTweet(@, r.ambassador, k,
                                       SmartApply(ts[k], res, NowLater))]
    /\ UNCHANGED <<tweets_data, second_rest>>

\* lines 254-258 in the second process
SecondSave ==
    /\ second.pc = "smart_loop"
    /\ second.idx > Len(second.ready_tweets)
    /\ tweets_data' = second.work
    /\ second' = [pc |-> "idle", ready_tweets |-> <<>>, work |-> <<>>, idx |-> 0,
                  attempts |-> <<>>]
    /\ UNCHANGED <<api_count, second_rest>>

\* Two tweets submitted 3 days before day 0.
OldStore ==
    <<[name |-> "Tony", tweets |-> <<NewTweet(1, 0 - ThreeDays)>>],
      [name |-> "Odi", tweets |-> <<NewTweet(2, 0 - ThreeDays)>>]>>

InitOverlap ==
    /\ day = 0
    /\ month = 0
    /\ tweets_data = OldStore
    /\ api_count = [m \in 0..MaxMonth |->
                      IF m = 0 THEN NearLimit - 2 - 2 * MaxSpare ELSE 0]
    /\ pc = "idle"
    /\ ready_tweets = <<>>
    /\ work = <<>>
    /\ idx = 0
    /\ attempts = <<>>
    /\ c_start = 0
    /\ n_inc = 0
    /\ last_ret = 0
    /\ item = NewTweet(1, 0)
    /\ clock = 0
    /\ applied = {}
    /\ selected = {}
    /\ ServiceUnused

NextOverlap ==
    \/ SmartStart
    \/ \E client_ok \in BOOLEAN : SmartLoad(client_ok)
    \/ \E o \in Outcomes : SmartFetch(o)
    \/ SmartSave
    \/ SecondStart
    \/ \E client_ok \in BOOLEAN : SecondLoad(client_ok)
    \/ \E o \in Outcomes : SecondFetch(o)
    \/ SecondSave

SpecOverlap == InitOverlap /\ [][NextOverlap]_vars

\* ------------------------------------------------------------- SpecQuota
\* The call counter alone: the two increment_api_count functions and
\* fetch_tweet_impressions called month after month, from an api_count.json
\* that stores no count.
InitQuota ==
    /\ day = 0
    /\ month = 0
    /\ tweets_data = <<>>
    /\ api_count = [m \in 0..MaxMonth |-> 0]
    /\ pc = "idle"
    /\ ready_tweets = <<>>
    /\ work = <<>>
    /\ idx = 0
    /\ attempts = <<>>
    /\ c_start = 0
    /\ n_inc = 0
    /\ last_ret = 0
    /\ item = NewTweet(1, 0)
    /\ clock = 0
    /\ applied = {}
    /\ selected = {}
    /\ ServiceUnused

\* strftime("%Y-%m") changes: the new month has no stored count
MonthRollover ==
    /\ month < MaxMonth
    /\ month' = month + 1
    /\ n_inc' = 0
    /\ last_ret' = 0
    /\ UNCHANGED <<day, tweets_data, api_count, collector_vars, ready_vars, other_vars>>

CollectorIncrement ==
    /\ n_inc < MaxIncrements
    /\ api_count' = increment_api_count(api_count, month)
    /\ n_inc' = n_inc + 1
    /\ last_ret' = get_api_count(api_count', month)
    /\ UNCHANGED <<day, month, tweets_data, collector_vars, ready_vars, other_vars>>

AppIncrement ==
    /\ n_inc < MaxIncrements
    /\ api_count' = app_increment_api_count(api_count, month)
    /\ n_inc' = n_inc + 1
    /\ last_ret' = get_api_count(api_count', month)
    /\ UNCHANGED <<day, month, tweets_data, collector_vars, ready_vars, other_vars>>

FetchCall(o) ==
    /\ n_inc < MaxIncrements
    /\ LET res == fetch_tweet_impressions(api_count, month, o)
       IN /\ api_count' = res.data
          /\ n_inc' = n_inc + res.calls
          /\ last_ret' = get_api_count(res.data, month)
    /\ UNCHANGED <<day, month, tweets_data, collector_vars, ready_vars, other_vars>>

NextQuota ==
    \/ MonthRollover
    \/ CollectorIncrement
    \/ AppIncrement
    \/ \E o \in Outcomes : FetchCall(o)

SpecQuota == InitQuota /\ [][NextQuota]_vars

\* -------------------------------------------------------------- SpecRace
\* increment_api_count in the dashboard process (app.py) and in a collector
\* process (x_collector.py): each call reads strftime and api_count.json
\* (lines 22-27), then writes the file from what it read (lines 29-32); the
\* file is not locked, so a call of the other process may come in between.
IncRead(p) ==
    /\ inc[p].pc = "idle"
    /\ n_inc < MaxIncrements
    /\ n_inc' = n_inc + 1
    /\ inc' = [inc EXCEPT ![p] = [pc |-> "read", current_month |-> month,
                                  data |-> api_count]]
    /\ UNCHANGED <<day, month, tweets_data, api_count, collector_vars, last_ret,
                   ready_vars, service_vars, n_manual, second, sheet>>

IncWrite(p) ==
    /\ inc[p].pc = "read"
    /\ api_count' = IF p = "dashboard"
                    THEN app_increment_api_count(inc[p].data, inc[p].current_month)
                    ELSE increment_api_count(inc[p].data, inc[p].current_month)
    /\ last_ret' = api_count'[inc[p].current_month]
    /\ inc' = [inc EXCEPT ![p].pc = "idle"]
    /\ UNCHANGED <<day, month, tweets_data, collector_vars, n_inc,
                   ready_vars, service_vars, n_manual, second, sheet>>

NextRace ==
    \/ MonthRollover
    \/ \E p \in IncProcs : IncRead(p)
    \/ \E p \in IncProcs : IncWrite(p)

SpecRace == InitQuota /\ [][NextRace]_vars

\* ------------------------------------------------------------- SpecReady
\* The three ready selections applied to one stored item at one time.
MaxStamp == MaxDay * TicksPerDay + 1

Stamps == 0..MaxStamp

\* The stored items: last_updated is not before submitted_date, and a final
\* item got its final update 3 days or more after its submission.
StoredItems ==
    {t \in [tweet_id : {1}, impressions : FetchVals, submitted_date : Stamps,
            last_updated : Stamps, final_update : BOOLEAN,
            date_posted_null : BOOLEAN] :
        /\ t.submitted_date <= t.last_updated
        /\ t.final_update => t.last_updated - t.submitted_date >= ThreeDays}

InitReady ==
    /\ day = 0
    /\ month = 0
    /\ tweets_data = <<>>
    /\ api_count = [m \in 0..MaxMonth |-> 0]
    /\ pc = "idle"
    /\ ready_tweets = <<>>
    /\ work = <<>>
    /\ idx = 0
    /\ attempts = <<>>
    /\ c_start = 0
    /\ n_inc = 0
    /\ last_ret = 0
    /\ item \in StoredItems
    /\ clock \in Stamps
    /\ item.last_updated <= clock
    /\ applied = {}
    /\ selected = {}
    /\ ServiceUnused

\* tweets_data.json holding the item alone
OneTweetData == <<[name |-> "Tony", tweets |-> <<item>>]>>

Ran(f, hit) ==
    /\ f \notin applied
    /\ applied' = applied \cup {f}
    /\ selected' = IF hit THEN selected \cup {f} ELSE selected
    /\ UNCHANGED <<day, month, tweets_data, api_count, collector_vars,
                   quota_vars, item, clock, other_vars>>

ApplyCollector ==
    Ran("collector", get_tweets_ready_for_update(OneTweetData, clock) # <<>>)

ApplyDashboard ==
    Ran("dashboard", app_get_tweets_ready_for_update(OneTweetData, clock) # <<>>)

ApplyService ==
    Ran("service", get_ready_tweets(<<item>>, clock) # <<>>)

NextReady ==
    \/ ApplyCollector
    \/ ApplyDashboard
    \/ ApplyService

SpecReady == InitReady /\ [][NextReady]_vars


\* ============================================================ UpdateService
\* The dashboard files and the collector are not used by the service.
JsonUnused ==
    /\ day = 0
    /\ month = 0
    /\ tweets_data = <<>>
    /\ api_count = [m \in 0..MaxMonth |-> 0]
    /\ pc = "idle"
    /\ ready_tweets = <<>>
    /\ work = <<>>
    /\ idx = 0
    /\ attempts = <<>>
    /\ c_start = 0
    /\ n_inc = 0
    /\ last_ret = 0
    /\ item = NewTweet(1, 0)
    /\ clock = 0
    /\ applied = {}
    /\ selected = {}
    /\ n_manual = 0
    /\ ProcsUnused

\* ------------------------------------------------------------ add_content
\* A URL is a sequence of characters; the scheme, the user, "/status/",
\* "/comments/" and the post id are one element each, the domain is spelled
\* out, since str.replace and "in" work on its characters.
X_COM == <<"x", ".", "c", "o", "m">>
TWITTER_COM == <<"t", "w", "i", "t", "t", "e", "r", ".", "c", "o", "m">>
FIXUPX_COM == <<"f", "i", "x", "u", "p", "x", ".", "c", "o", "m">>
FXTWITTER_COM == <<"f", "x", "t", "w", "i", "t", "t", "e", "r", ".", "c", "o", "m">>
REDDIT_COM == <<"r", "e", "d", "d", "i", "t", ".", "c", "o", "m">>
EXAMPLE_COM == <<"e", "x", "a", "m", "p", "l", "e", ".", "c", "o", "m">>

MirrorDomains == {X_COM, TWITTER_COM, FIXUPX_COM, FXTWITTER_COM}
PostIds == {"1", "2"}

StatusUrl(domain, id) == <<"https://">> \o domain \o <<"/user", "/status/", id>>
CommentsUrl(domain, id) == <<"https://">> \o domain \o <<"/r/sub", "/comments/", id>>
ProfileUrl(domain) == <<"https://">> \o domain \o <<"/user">>

\* the URLs submitted
Urls ==
    {StatusUrl(d, id) : d \in MirrorDomains, id \in PostIds}
    \cup {CommentsUrl(REDDIT_COM, id) : id \in PostIds}
    \cup {ProfileUrl(X_COM), ProfileUrl(REDDIT_COM), StatusUrl(EXAMPLE_COM, "1")}

\* str.lower, on the characters the URLs are made of
LowerChar(c) == IF c = "X" THEN "x" ELSE IF c = "T" THEN "t" ELSE c
Lower(str) == [j \in 1..Len(str) |-> LowerChar(str[j])]

\* old in str
Contains(str, old) ==
    \E j \in 1..(Len(str) - Len(old) + 1) :
        SubSeq(str, j, j + Len(old) - 1) = old

\* str.replace(old, new): the occurrences from the left, not overlapping
RECURSIVE Replace(_, _, _)
Replace(str, old, new) ==
    IF Len(str) < Len(old) THEN str
    ELSE IF SubSeq(str, 1, Len(old)) = old
    THEN new \o Replace(SubSeq(str, Len(old) + 1, Len(str)), old, new)
    ELSE <<Head(str)>> \o Replace(Tail(str), old, new)

\* normalize_x_url, lines 232-238
normalize_x_url(url) ==
    Replace(Replace(Replace(url, TWITTER_COM, X_COM), FIXUPX_COM, X_COM),
            FXTWITTER_COM, X_COM)

\* is_x_url, lines 240-243
is_x_url(url) ==
    \E domain \in MirrorDomains : Contains(Lower(url), domain)

\* the element after the last occurrence of the marker, "" without one
\* (tweet_url.split("/status/")[-1].split("?")[0]; the URLs have no "?")
AfterLast(url, marker) ==
    LET at == {j \in 1..Len(url) : url[j] = marker}
    IN IF at = {} \/ (CHOOSE j \in at : \A k \in at : k <= j) = Len(url)
       THEN ""
       ELSE url[(CHOOSE j \in at : \A k \in at : k <= j) + 1]

extract_tweet_id(tweet_url) == AfterLast(tweet_url, "/status/")
extract_reddit_id(reddit_url) == AfterLast(reddit_url, "/comments/")

Returned(op, ok, msg) == [op |-> op, ok |-> ok, msg |-> msg]

\* What table(...).insert(...).execute() does: it returns the created row,
\* it returns no data (and creates no row), or it raises.
InsertOutcomes == {"row", "no_data", "raises"}

\* add_new_tweet, lines 56-86. unique_id: the table "ambassadors" has a
\* unique constraint on Tweet_ID (the handler of line 84 expects one; the
\* schema is not part of the sources).  Line 80 returns the pair
\* True, (message if result.data else (False, "Failed to insert")).
add_new_tweet(ambassador, tweet_url, unique_id, insert) ==
    LET tweet_id == extract_tweet_id(tweet_url) IN
    IF tweet_id = ""
    THEN /\ result' = Returned("add_new_tweet", FALSE, "Invalid tweet URL format")
         /\ UNCHANGED x_table
    ELSE IF \E j \in 1..Len(x_table) : x_table[j].Tweet_URL = tweet_url
    THEN /\ result' = Returned("add_new_tweet", FALSE, "Tweet URL already exists")
         /\ UNCHANGED x_table
    ELSE IF unique_id /\ \E j \in 1..Len(x_table) : x_table[j].Tweet_ID = tweet_id
    THEN /\ result' = Returned("add_new_tweet", FALSE, "Link has been added already")
         /\ UNCHANGED x_table
    ELSE IF insert = "raises"
    THEN /\ result' = Returned("add_new_tweet", FALSE, "Database error")
         /\ UNCHANGED x_table
    ELSE IF insert = "no_data"
    THEN /\ result' = Returned("add_new_tweet", TRUE, "(False, 'Failed to insert')")
         /\ UNCHANGED x_table
    ELSE /\ result' = Returned("add_new_tweet", TRUE, "Tweet added")
         /\ x_table' = Append(x_table,
               [Ambassador |-> ambassador, Tweet_ID |-> tweet_id,
                Tweet_URL |-> tweet_url, Submitted_Date |-> hour,
                Impressions |-> 0, Likes |-> 0, posted |-> FALSE])

\* add_new_reddit_post, lines 88-112
add_new_reddit_post(ambassador, reddit_url, insert) ==
    LET post_id == extract_reddit_id(reddit_url) IN
    IF post_id = ""
    THEN /\ result' = Returned("add_new_reddit_post", FALSE, "Invalid Reddit URL format")
         /\ UNCHANGED reddit_table
    ELSE IF \E j \in 1..Len(reddit_table) : reddit_table[j].url = reddit_url
    THEN /\ result' = Returned("add_new_reddit_post", FALSE, "Reddit URL already exists")
         /\ UNCHANGED reddit_table
    ELSE IF insert = "raises"
    THEN /\ result' = Returned("add_new_reddit_post", FALSE, "Database error")
         /\ UNCHANGED reddit_table
    ELSE IF insert = "no_data"
    THEN /\ result' = Returned("add_new_reddit_post", TRUE, "(False, 'Failed to insert')")
         /\ UNCHANGED reddit_table
    ELSE /\ result' = Returned("add_new_reddit_post", TRUE, "Reddit post added")
         /\ reddit_table' = Append(reddit_table,
               [poster |-> ambassador, url |-> reddit_url,
                submitted_at |-> hour, Score |-> 0, scored |-> FALSE,
                Comments |-> 0, Views |-> 0])

\* add_content, lines 245-260
add_content(ambassador, content_url, unique_id, insert) ==
    /\ Len(x_table) + Len(reddit_table) < MaxRows
    /\ IF is_x_url(content_url)
       THEN /\ add_new_tweet(ambassador, normalize_x_url(content_url), unique_id,
                             insert)
            /\ UNCHANGED reddit_table
       ELSE IF Contains(Lower(content_url), REDDIT_COM)
       THEN /\ add_new_reddit_post(ambassador, content_url, insert)
            /\ UNCHANGED x_table
       ELSE /\ result' = Returned("add_content", FALSE, "Unsupported platform")
            /\ UNCHANGED <<x_table, reddit_table>>
    /\ UNCHANGED <<json_vars, daily, hour, board>>

InitSubmit == JsonUnused /\ ServiceUnused

NextSubmit ==
    \E a \in Ambassadors, u \in Urls, unique_id \in BOOLEAN,
       insert \in InsertOutcomes :
        add_content(a, u, unique_id, insert)

SpecSubmit == InitSubmit /\ [][NextSubmit]_vars

\* ------------------------------------------------------ daily_impressions
\* The service's clock counts ticks, HourTicks to the hour and HoursPerDay
\* hours to the day.
DayTicks == HoursPerDay * HourTicks
MaxHour == (MaxServiceDay + 1) * DayTicks - 1

\* datetime.now().date()
Today(now) == now \div DayTicks

\* sum([tweet.get("Impressions", 0) for tweet in all_tweets.data])
RECURSIVE SumImpressions(_)
SumImpressions(rows) ==
    IF rows = <<>> THEN 0 ELSE Head(rows).Impressions + SumImpressions(Tail(rows))

\* select(...).eq("date", date): the rows' positions
DailyRows(d, date) == {j \in 1..Len(d) : d[j].date = date}

\* .data[0] of such a select
FirstRow(d, date) == d[CHOOSE j \in DailyRows(d, date) : \A k \in DailyRows(d, date) : j <= k]

\* max(0, impressions_gained)
NonNegative(x) == IF x > 0 THEN x ELSE 0

\* calculate_daily_impressions, lines 279-345: the table after the call
calculate_daily_impressions(d, current_total, now) ==
    LET today == Today(now)
        yesterday == today - 1
        has_yesterday == DailyRows(d, yesterday) # {}
    IN IF DailyRows(d, today) # {}
       THEN \* lines 291-314: update of the existing record, by its id
            LET record_id == CHOOSE j \in DailyRows(d, today) :
                                \A k \in DailyRows(d, today) : j <= k
                impressions_gained ==
                    IF has_yesterday
                    THEN current_total - FirstRow(d, yesterday).total_impressions
                    ELSE current_total
            IN [d EXCEPT ![record_id] =
                   [@ EXCEPT !.total_impressions = current_total,
                             !.impressions_gained = NonNegative(impressions_gained)]]
       ELSE \* lines 315-341: insert of a new record
            LET impressions_gained ==
                    IF has_yesterday
                    THEN current_total - FirstRow(d, yesterday).total_impressions
                    ELSE 0
            IN Append(d, [date |-> today, total_impressions |-> current_total,
                          impressions_gained |-> NonNegative(impressions_gained),
                          created_at |-> now])

\* lines 401-413: auto_calculate_daily_impressions calls
\* calculate_daily_impressions
AutoRecomputes(d, now) ==
    IF DailyRows(d, Today(now)) # {}
    THEN now - FirstRow(d, Today(now)).created_at >= HourTicks
    ELSE TRUE

\* auto_calculate_daily_impressions, lines 393-417: the table after the call
auto_calculate_daily_impressions(d, current_total, now) ==
    IF AutoRecomputes(d, now)
    THEN calculate_daily_impressions(d, current_total, now)
    ELSE d

\* reset_today_impressions updating every record
reset_today_impressions_AllDays(d, current_total, now) ==
    [j \in 1..Len(d) |->
        [d[j] EXCEPT !.total_impressions = current_total,
                     !.impressions_gained = 0]]

\* reset_today_impressions, lines 368-391: the table after the call
reset_today_impressions(d, current_total, now) ==
    [j \in 1..Len(d) |->
        IF d[j].date = Today(now)
        THEN [d[j] EXCEPT !.total_impressions = current_total,
                          !.impressions_gained = 0]
        ELSE d[j]]

Calculate ==
    /\ daily' = calculate_daily_impressions(daily, SumImpressions(x_table), hour)
    /\ result' = Returned("calculate_daily_impressions", TRUE,
                          IF DailyRows(daily, Today(hour)) # {} THEN "updated"
                          ELSE IF DailyRows(daily, Today(hour) - 1) # {}
                          THEN "recorded" ELSE "baseline")
    /\ UNCHANGED <<json_vars, x_table, reddit_table, hour, board>>

AutoCalculate ==
    /\ daily' = auto_calculate_daily_impressions(daily, SumImpressions(x_table), hour)
    /\ result' = Returned("auto_calculate_daily_impressions", TRUE,
                          IF ~AutoRecomputes(daily, hour) THEN "recent"
                          ELSE IF DailyRows(daily, Today(hour)) # {} THEN "updated"
                          ELSE IF DailyRows(daily, Today(hour) - 1) # {}
                          THEN "recorded" ELSE "baseline")
    /\ UNCHANGED <<json_vars, x_table, reddit_table, hour, board>>

\* lines 383-387: result.data holds the rows the update has changed
ResetToday ==
    /\ daily' = reset_today_impressions(daily, SumImpressions(x_table), hour)
    /\ result' = IF DailyRows(daily, Today(hour)) # {}
                 THEN Returned("reset_today_impressions", TRUE, "reset")
                 ELSE Returned("reset_today_impressions", FALSE, "No record found for today")
    /\ UNCHANGED <<json_vars, x_table, reddit_table, hour, board>>

\* time passes
ServiceTick ==
    /\ hour < MaxHour
    /\ hour' = hour + 1
    /\ result' = Returned("none", TRUE, "")
    /\ UNCHANGED <<json_vars, x_table, reddit_table, daily, board>>

\* The metrics of the table "ambassadors" are written by the updater outside
\* these sources; the service reads them at line 285.
ImpressionsWritten(j, v) ==
    /\ j \in 1..Len(x_table)
    /\ x_table[j].Impressions # v
    /\ x_table' = [x_table EXCEPT ![j] = [@ EXCEPT !.Impressions = v, !.posted = TRUE]]
    /\ result' = Returned("none", TRUE, "")
    /\ UNCHANGED <<json_vars, reddit_table, daily, hour, board>>

InitDaily ==
    /\ JsonUnused
    /\ x_table = <<[Ambassador |-> "Tony", Tweet_ID |-> "1",
                    Tweet_URL |-> StatusUrl(X_COM, "1"), Submitted_Date |-> 0,
                    Impressions |-> 0, Likes |-> 0, posted |-> FALSE]>>
    /\ reddit_table = <<>>
    /\ daily = <<>>
    /\ hour = 0
    /\ result = Returned("none", TRUE, "")
    /\ board = [fn |-> "none", rows |-> <<>>]

NextDaily ==
    \/ Calculate
    \/ AutoCalculate
    \/ ResetToday
    \/ ServiceTick
    \/ \E j \in 1..MaxRows, v \in FetchVals : ImpressionsWritten(j, v)

SpecDaily == InitDaily /\ [][NextDaily]_vars

\* ------------------------------------------------------------ leaderboards
\* list.sort(key=..., reverse=True) on a sequence of <<key, row>>: a stable
\* sort, rows with equal keys keep their order
RECURSIVE InsertDesc_BeforeEqual(_, _)
InsertDesc_BeforeEqual(e, sorted) ==
    IF sorted = <<>> THEN <<e>>
    ELSE IF Head(sorted)[1] > e[1]
    THEN <<Head(sorted)>> \o InsertDesc_BeforeEqual(e, Tail(sorted))
    ELSE <<e>> \o sorted

RECURSIVE InsertDesc(_, _)
InsertDesc(e, sorted) ==
    IF sorted = <<>> THEN <<e>>
    ELSE IF Head(sorted)[1] >= e[1]
    THEN <<Head(sorted)>> \o InsertDesc(e, Tail(sorted))
    ELSE <<e>> \o sorted

RECURSIVE SortDesc(_)
SortDesc(keyed) ==
    IF keyed = <<>> THEN <<>>
    ELSE InsertDesc(keyed[Len(keyed)], SortDesc(SubSeq(keyed, 1, Len(keyed) - 1)))

Rows(keyed) == [j \in 1..Len(keyed) |-> keyed[j][2]]

\* the position of the name in a dict of stats kept in insertion order, or 0
StatIndex(stats, name) ==
    IF \E j \in 1..Len(stats) : stats[j].name = name
    THEN CHOOSE j \in 1..Len(stats) : stats[j].name = name
    ELSE 0

\* select(...).not_.is_("date_posted", "null") and .not_.is_("Score", "null")
PostedRows(rows) == SelectSeq(rows, LAMBDA r : r.posted)
ScoredRows(rows) == SelectSeq(rows, LAMBDA r : r.scored)

\* get_leaderboard, lines 132-154: the loop over result.data
RECURSIVE XStats(_, _)
XStats(rows, stats) ==
    IF rows = <<>> THEN stats
    ELSE LET tweet == Head(rows)
             name == tweet.Ambassador
             k == StatIndex(stats, name)
             old == IF k = 0
                    THEN [name |-> name, tweets |-> 0, total_impressions |-> 0,
                          total_likes |-> 0]
                    ELSE stats[k]
             new == [old EXCEPT !.tweets = @ + 1,
                                !.total_impressions = @ + tweet.Impressions,
                                !.total_likes = @ + tweet.Likes]
         IN XStats(Tail(rows),
                   IF k = 0 THEN Append(stats, new) ELSE [stats EXCEPT ![k] = new])

\* get_leaderboard, lines 114-162 (with no year and month)
get_leaderboard(rows) ==
    LET stats == XStats(PostedRows(rows), <<>>)
    IN Rows(SortDesc([j \in 1..Len(stats) |-> <<stats[j].total_impressions, stats[j]>>]))

\* get_reddit_leaderboard, lines 183-199: the loop over result.data
RECURSIVE RedditStats(_, _)
RedditStats(rows, stats) ==
    IF rows = <<>> THEN stats
    ELSE LET post == Head(rows)
             name == post.poster
             k == StatIndex(stats, name)
             old == IF k = 0
                    THEN [name |-> name, posts |-> 0, total_score |-> 0,
                          total_comments |-> 0, total_views |-> 0]
                    ELSE stats[k]
             new == [old EXCEPT !.posts = @ + 1,
                                !.total_score = @ + post.Score,
                                !.total_comments = @ + post.Comments,
                                !.total_views = @ + post.Views]
         IN RedditStats(Tail(rows),
                        IF k = 0 THEN Append(stats, new) ELSE [stats EXCEPT ![k] = new])

\* get_reddit_leaderboard, lines 164-207 (with no year and month)
get_reddit_leaderboard(rows) ==
    LET stats == RedditStats(ScoredRows(rows), <<>>)
    IN Rows(SortDesc([j \in 1..Len(stats) |-> <<stats[j].total_score, stats[j]>>]))

\* sum(tweet.get('impressions', 0) for tweet in tweets)
RECURSIVE SumTweetImpressions(_)
SumTweetImpressions(tweets) ==
    IF tweets = <<>> THEN 0
    ELSE Head(tweets).impressions + SumTweetImpressions(Tail(tweets))

\* get_ambassador_stats of app.py, lines 668-711
get_ambassador_stats(data) ==
    LET with_tweets == SelectSeq(data, LAMBDA e : e.tweets # <<>>)
        stats == [j \in 1..Len(with_tweets) |->
                    [name |-> with_tweets[j].name,
                     total_tweets |-> Len(with_tweets[j].tweets),
                     total_impressions |-> SumTweetImpressions(with_tweets[j].tweets)]]
    IN Rows(SortDesc([j \in 1..Len(stats) |-> <<stats[j].total_impressions, stats[j]>>]))

\* str.lower on the names
LowerName(name) ==
    IF name = "Tony" THEN "tony" ELSE IF name = "Odi" THEN "odi" ELSE name

\* get_total_leaderboard, lines 450-461: the loop over x_result.data
RECURSIVE CombineX(_, _)
CombineX(rows, stats) ==
    IF rows = <<>> THEN stats
    ELSE LET tweet == Head(rows)
             name == tweet.Ambassador
             k == StatIndex(stats, name)
             old == IF k = 0
                    THEN [name |-> name, x_views |-> 0, reddit_views |-> 0,
                          total_views |-> 0]
                    ELSE stats[k]
             new == [old EXCEPT !.x_views = @ + tweet.Impressions,
                                !.total_views = @ + tweet.Impressions]
         IN CombineX(Tail(rows),
                     IF k = 0 THEN Append(stats, new) ELSE [stats EXCEPT ![k] = new])

\* get_total_leaderboard, lines 464-477: the loop over reddit_result.data
RECURSIVE CombineReddit(_, _)
CombineReddit(rows, stats) ==
    IF rows = <<>> THEN stats
    ELSE LET post == Head(rows)
             name == post.poster
             views == post.Views
             k == StatIndex(stats, name)
         IN CombineReddit(Tail(rows),
               IF k = 0
               THEN Append(stats, [name |-> name, x_views |-> 0,
                                   reddit_views |-> views, total_views |-> views])
               ELSE [stats EXCEPT ![k] =
                        [@ EXCEPT !.reddit_views = @ + views,
                                  !.total_views = @ + views]])

get_total_leaderboard_TonyRanked(xrows, rrows) ==
    LET x_data == SelectSeq(PostedRows(xrows), LAMBDA r : r.Impressions > MIN_VIEWS)
        combined == CombineReddit(ScoredRows(rrows), CombineX(x_data, <<>>))
    IN Rows(SortDesc([j \in 1..Len(combined) |->
                        <<combined[j].total_views, combined[j]>>]))

\* get_total_leaderboard, lines 419-503 (with no year and month): the X rows
\* with more than 500 impressions, the Reddit rows with a score, and Tony's
\* row (the last row whose name is "tony" in lower case) at the end
get_total_leaderboard(xrows, rrows) ==
    LET x_data == SelectSeq(PostedRows(xrows), LAMBDA r : r.Impressions > MIN_VIEWS)
        combined == CombineReddit(ScoredRows(rrows), CombineX(x_data, <<>>))
        tonys == {j \in 1..Len(combined) : LowerName(combined[j].name) = "tony"}
        other_ambassadors == SelectSeq(combined, LAMBDA a : LowerName(a.name) # "tony")
        sorted == Rows(SortDesc([j \in 1..Len(other_ambassadors) |->
                     <<other_ambassadors[j].total_views, other_ambassadors[j]>>]))
    IN IF tonys = {} THEN sorted
       ELSE Append(sorted, combined[CHOOSE j \in tonys : \A k \in tonys : k <= j])

\* The tables and the store the leaderboards are computed from.
BoardNames == {"Tony", "tony", "Odi", "odi"}
BoardVals == {100, 600}

BoardXRows ==
    {[Ambassador |-> a, Tweet_ID |-> "1", Tweet_URL |-> StatusUrl(X_COM, "1"),
      Submitted_Date |-> 0, Impressions |-> v, Likes |-> 5, posted |-> p] :
        a \in BoardNames, v \in BoardVals, p \in BOOLEAN}

BoardRedditRows ==
    {[poster |-> a, url |-> CommentsUrl(REDDIT_COM, "1"), submitted_at |-> 0,
      Score |-> 7, scored |-> sc, Comments |-> 3, Views |-> v] :
        a \in BoardNames, sc \in BOOLEAN, v \in {0, 100}}

SeqsUpTo(S, n) == UNION {[1..m -> S] : m \in 0..n}

BoardStores ==
    {<<[name |-> "Tony", tweets |-> <<[NewTweet(1, 0) EXCEPT !.impressions = v1]>>],
       [name |-> "Odi", tweets |-> <<[NewTweet(2, 0) EXCEPT !.impressions = v2],
                                     [NewTweet(3, 0) EXCEPT !.impressions = v3]>>]>> :
        v1 \in {0, 500, 1000}, v2 \in FetchVals, v3 \in FetchVals}

\* One table holds up to MaxBoardRows rows and the other one row at most, or
\* the tables are empty and tweets_data.json holds tweets.
InitBoard ==
    /\ day = 0
    /\ month = 0
    /\ api_count = [m \in 0..MaxMonth |-> 0]
    /\ pc = "idle"
    /\ ready_tweets = <<>>
    /\ work = <<>>
    /\ idx = 0
    /\ attempts = <<>>
    /\ c_start = 0
    /\ n_inc = 0
    /\ last_ret = 0
    /\ item = NewTweet(1, 0)
    /\ clock = 0
    /\ applied = {}
    /\ selected = {}
    /\ n_manual = 0
    /\ ProcsUnused
    /\ daily = <<>>
    /\ hour = 0
    /\ result = Returned("none", TRUE, "")
    /\ board = [fn |-> "none", rows |-> <<>>]
    /\ \/ /\ tweets_data = <<>>
          /\ x_table \in SeqsUpTo(BoardXRows, MaxBoardRows)
          /\ reddit_table \in SeqsUpTo(BoardRedditRows, 1)
       \/ /\ tweets_data = <<>>
          /\ x_table \in SeqsUpTo(BoardXRows, 1)
          /\ reddit_table \in SeqsUpTo(BoardRedditRows, MaxBoardRows)
       \/ /\ tweets_data \in BoardStores
          /\ x_table = <<>>
          /\ reddit_table = <<>>

Shown(fn, rows) ==
    /\ board' = [fn |-> fn, rows |-> rows]
    /\ UNCHANGED <<json_vars, x_table, reddit_table, daily, hour, result>>

GetLeaderboard == Shown("get_leaderboard", get_leaderboard(x_table))

GetRedditLeaderboard ==
    Shown("get_reddit_leaderboard", get_reddit_leaderboard(reddit_table))

GetAmbassadorStats ==
    Shown("get_ambassador_stats", get_ambassador_stats(tweets_data))

GetTotalLeaderboard ==
    Shown("get_total_leaderboard", get_total_leaderboard(x_table, reddit_table))

NextBoard ==
    \/ GetLeaderboard
    \/ GetRedditLeaderboard
    \/ GetAmbassadorStats
    \/ GetTotalLeaderboard

SpecBoard == InitBoard /\ [][NextBoard]_vars

\* ------------------------------------------------------------- SpecStats
\* The dashboard's statistics and ready selections on a tweets_data.json
\* whose tweets may have no submitted_date or one that does not parse.
StatDates == {NO_DATE, BAD_DATE} \cup 0..2

StatClocks == {ThreeDays + 1, ThreeDays + 2}

StatTweets ==
    {t \in [impressions : FetchVals, submitted_date : StatDates,
            last_updated : StatDates \cup StatClocks, final_update : BOOLEAN] :
        \/ t.last_updated = t.submitted_date
        \/ t.last_updated = ThreeDays + 1}

\* Tony's tweets, with the ids 1, 2, ... in the order of the list
StatStore(ts) ==
    <<[name |-> "Tony",
       tweets |-> [j \in 1..Len(ts) |->
                     [tweet_id |-> j, impressions |-> ts[j].impressions,
                      submitted_date |-> ts[j].submitted_date,
                      last_updated |-> ts[j].last_updated,
                      final_update |-> ts[j].final_update]]]>>

InitStats ==
    /\ day = 0
    /\ month = 0
    /\ \E ts \in SeqsUpTo(StatTweets, MaxStatTweets) : tweets_data = StatStore(ts)
    /\ api_count = [m \in 0..MaxMonth |-> 0]
    /\ pc = "idle"
    /\ ready_tweets = <<>>
    /\ work = <<>>
    /\ idx = 0
    /\ attempts = <<>>
    /\ c_start = 0
    /\ n_inc = 0
    /\ last_ret = 0
    /\ item = NewTweet(1, 0)
    /\ clock \in StatClocks
    /\ applied = {}
    /\ selected = {}
    /\ ServiceUnused

Computed(fn, rows) ==
    /\ board' = [fn |-> fn, rows |-> rows]
    /\ UNCHANGED <<json_vars, x_table, reddit_table, daily, hour, result>>

GetSmartUpdateStats ==
    Computed("get_smart_update_stats", <<get_smart_update_stats(tweets_data, clock)>>)

GetReadyCollector ==
    Computed("x_collector.get_tweets_ready_for_update",
             get_tweets_ready_for_update(tweets_data, clock))

GetReadyDashboard ==
    Computed("app.get_tweets_ready_for_update",
             app_get_tweets_ready_for_update(tweets_data, clock))

NextStats ==
    \/ GetSmartUpdateStats
    \/ GetReadyCollector
    \/ GetReadyDashboard

SpecStats == InitStats /\ [][NextStats]_vars

\* ------------------------------------------------------------- SpecSheet
\* The sheet updater of app.py.  sheet.handle is the module-level
\* sheet_updater_process (0 for None, else the number of the process),
\* sheet.alive the started processes that have not ended, sheet.sessions
\* the sessions whose session_state holds sheet_updater_started, and
\* sheet.running what is_sheet_updater_running returned at line 1022.
Sessions == 1..MaxSessions

\* "sheet_updater_process and sheet_updater_process.poll() is None"
Held(sh) == sh.handle # 0 /\ sh.handle \in sh.alive

\* subprocess.Popen([sys.executable, "sheet_updater.py"], ...)
Popen(sh) ==
    [sh EXCEPT !.started = @ + 1,
               !.alive = @ \cup {sh.started + 1},
               !.handle = sh.started + 1]

\* lines 37-60
auto_start_sheet_updater(sh) == IF Held(sh) THEN sh ELSE Popen(sh)

\* lines 194-208
start_sheet_updater(sh) == IF Held(sh) THEN sh ELSE Popen(sh)

\* lines 210-221: terminate() and wait()
stop_sheet_updater(sh) ==
    IF Held(sh) THEN [sh EXCEPT !.alive = @ \ {sh.handle}] ELSE sh

\* lines 223-228
is_sheet_updater_running(sh) == Held(sh)

\* One run of the script for a session, from the top: line 35 sets the
\* module-level handle to None, lines 74-76 start the updater in a session
\* that has not done so, the pressed button (lines 435 and 444) is served,
\* and line 1022 asks whether the updater runs.
ScriptRun(session, button) ==
    /\ sheet.started < MaxUpdaters
    /\ LET reset == [sheet EXCEPT !.handle = 0]
           auto == IF session \in sheet.sessions
                   THEN reset
                   ELSE auto_start_sheet_updater(
                           [reset EXCEPT !.sessions = @ \cup {session}])
           served == IF button = "start" /\ auto.started < MaxUpdaters
                     THEN start_sheet_updater(auto)
                     ELSE IF button = "stop" THEN stop_sheet_updater(auto)
                     ELSE auto
       IN sheet' = [served EXCEPT !.running = is_sheet_updater_running(served)]
    /\ UNCHANGED <<day, month, tweets_data, api_count, collector_vars, quota_vars,
                   ready_vars, service_vars, n_manual, second, inc>>

\* sheet_updater.py ends (it is killed, or its loop raises)
UpdaterExits(pid) ==
    /\ pid \in sheet.alive
    /\ sheet' = [sheet EXCEPT !.alive = @ \ {pid}]
    /\ UNCHANGED <<day, month, tweets_data, api_count, collector_vars, quota_vars,
                   ready_vars, service_vars, n_manual, second, inc>>

NextSheet ==
    \/ \E session \in Sessions, button \in {"none", "start", "stop"} :
          ScriptRun(session, button)
    \/ \E pid \in 1..MaxUpdaters : UpdaterExits(pid)

InitSheet == JsonUnused /\ ServiceUnused

SpecSheet == InitSheet /\ [][NextSheet]_vars

\* ---------------------------------------------------------------- claims
Max0(x) == IF x > 0 THEN x ELSE 0

Min2(a, b) == IF a < b THEN a ELSE b

InBatch == pc \in {"smart_loop", "legacy_loop"}

FetchStep == InBatch /\ Len(attempts') = Len(attempts) + 1

SaveStep == InBatch /\ pc' = "idle"

Stored(d, id) == CHOOSE t \in AllTweets(d) : t.tweet_id = id

\* C1: a batch started when the month's counter is c issues at most
\* max(0, 100 - c) fetch attempts, and none once the remaining quota is 0.
C1_BatchWithinQuota ==
    [][FetchStep =>
          /\ Len(attempts') <= Max0(API_LIMIT - c_start)
          /\ get_api_count(api_count, month) < API_LIMIT]_vars

\* C2: every stored item with final_update = true got its final update 3
\* days or more after its submission, and an item becomes final in the
\* store only by the save of a smart batch that fetched a value for it, 3
\* days or more after its submission.
C2_FinalizedOldAndFetched ==
    /\ [](\A t \in AllTweets(tweets_data) :
             t.final_update => t.last_updated - t.submitted_date >= ThreeDays)
    /\ [][\A t \in AllTweets(tweets_data') :
             t.final_update =>
                \/ /\ TweetExists(tweets_data, t.tweet_id)
                   /\ Stored(tweets_data, t.tweet_id).final_update
                \/ /\ pc = "smart_loop"
                   /\ \E j \in 1..Len(attempts) :
                         /\ attempts[j].tweet_id = t.tweet_id
                         /\ attempts[j].ok
                         /\ attempts[j].at - t.submitted_date >= ThreeDays]_vars

C2_Witness ==
    \E t \in AllTweets(tweets_data) : t.final_update /\ pc = "idle"

\* C3: no ready selection (collector, dashboard, update service) returns an
\* item younger than 3 days.
C3_ReadyNeverYoung ==
    selected # {} => clock - item.submitted_date >= ThreeDays

C3_Witness ==
    selected = {"collector", "dashboard", "service"}

C5_OneIncrementPerFetch ==
    [][FetchStep =>
          get_api_count(api_count', month) = get_api_count(api_count, month) + 1]_vars

\* C6: from no stored count for the month, after N calls of
\* increment_api_count in the month the stored count is N, and the last
\* call returned N.
C6_CountIsNumberOfCalls ==
    /\ get_api_count(api_count, month) = n_inc
    /\ n_inc > 0 => last_ret = n_inc

C6_Witness ==
    n_inc = 3 /\ get_api_count(api_count, month) = 3 /\ last_ret = 3

\* C7: every report of the remaining quota is max(0, 100 - calls_made),
\* never negative: the usage panel, the limit check of the smart dashboard
\* (shown when tweets are ready) and get_monthly_api_usage.
C7_RemainingIsClamped ==
    LET calls == get_api_count(api_count, month)
        stats == get_smart_update_stats(tweets_data, NowLater)
    IN /\ SettingsRemaining(calls) = Max0(API_LIMIT - calls)
       /\ stats.tweets_ready_for_update > 0 =>
             SmartDashboardRemaining(calls) = Max0(API_LIMIT - calls)
       /\ \A total \in 0..(API_LIMIT + MaxCalls) :
             MonthlyUsageRemaining(total) = Max0(API_LIMIT - total)

\* C8: a smart batch attempts the READY items in ascending order of
\* submitted_date, and with a budget b (the remaining quota) smaller than
\* their number it attempts the b oldest and no other.
C8_OldestWithinBudget ==
    pc = "smart_loop" =>
        LET b == Min2(Max0(API_LIMIT - c_start), Len(ready_tweets))
        IN /\ Len(attempts) <= b
           /\ \A j \in 1..Len(attempts) :
                 attempts[j].tweet_id = ready_tweets[j].tweet_id
           /\ \A j, k \in 1..Len(attempts) :
                 j < k => attempts[j].before.submitted_date
                            <= attempts[k].before.submitted_date
           /\ idx > Len(ready_tweets) => Len(attempts) = b

\* C9: when a smart batch saves, every item it fetched a value for is
\* stored with the fetched impressions, last_updated the time of the fetch
\* and final_update = true.
C9_FetchedItemIsFinal ==
    [][(pc = "smart_loop" /\ pc' = "idle") =>
          \A j \in 1..Len(attempts) :
             attempts[j].ok =>
                /\ TweetExists(tweets_data', attempts[j].tweet_id)
                /\ Stored(tweets_data', attempts[j].tweet_id) =
                      [attempts[j].before EXCEPT
                          !.impressions = attempts[j].impressions,
                          !.last_updated = attempts[j].at,
                          !.final_update = TRUE]]_vars

C9_Witness ==
    /\ pc = "idle"
    /\ \E t \in AllTweets(tweets_data) :
          /\ t.final_update
          /\ t.impressions = 500
          /\ t.last_updated = NowLater
          /\ t.last_updated - t.submitted_date >= (WaitDays + 1) * TicksPerDay

\* C10: when a batch saves, every item whose fetch failed is stored as the
\* batch loaded it, field by field; an item that was READY at its failed
\* fetch is then not final and is selected as READY again.
C10_FailedFetchLeavesItem ==
    [][(SaveStep /\ \E j \in 1..Len(attempts) : ~attempts[j].ok) =>
          LET ready == get_tweets_ready_for_update(tweets_data', NowLater')
          IN \A j \in 1..Len(attempts) :
                ~attempts[j].ok =>
                   /\ TweetExists(tweets_data', attempts[j].tweet_id)
                   /\ Stored(tweets_data', attempts[j].tweet_id) = attempts[j].before
                   /\ IsReady(attempts[j].before, attempts[j].at) =>
                         /\ ~Stored(tweets_data', attempts[j].tweet_id).final_update
                         /\ \E r \in 1..Len(ready) :
                               ready[r].tweet_id = attempts[j].tweet_id]_vars

C10_Witness ==
    /\ pc = "smart_loop"
    /\ idx > Len(ready_tweets)
    /\ \E j \in 1..Len(attempts) :
          /\ ~attempts[j].ok
          /\ IsReady(attempts[j].before, attempts[j].at)


C12_AcceptedItemStays ==
    [][\A t \in AllTweets(tweets_data) :
          TweetExists(tweets_data', t.tweet_id)]_vars

\* the post a stored X row refers to, and the canonical x.com URL of a post
CanonicalUrl(id) == StatusUrl(X_COM, id)

\* C13: after any sequence of add_content calls no two stored X items refer
\* to the same post, and every stored mirror URL (twitter.com, x.com,
\* fixupx.com, fxtwitter.com) is stored as the canonical x.com URL.
C13_MirrorsAreDuplicates ==
    /\ \A j, k \in 1..Len(x_table) :
          j # k => x_table[j].Tweet_ID # x_table[k].Tweet_ID
    /\ \A j \in 1..Len(x_table) :
          x_table[j].Tweet_URL = CanonicalUrl(x_table[j].Tweet_ID)

\* the step is a run of calculate_daily_impressions, called directly or by
\* auto_calculate_daily_impressions
CalcRan ==
    /\ result'.op \in {"calculate_daily_impressions",
                       "auto_calculate_daily_impressions"}
    /\ result'.msg # "recent"

NoYesterday == DailyRows(daily, Today(hour) - 1) = {}

\* C14: when calculate_daily_impressions runs on a day with no snapshot of
\* the previous day, today's snapshot ends with impressions_gained = 0, for
\* the call that inserts it and for every later call of the day.
C14_FirstRunGainsNothing ==
    [][(CalcRan /\ NoYesterday) =>
          FirstRow(daily', Today(hour)).impressions_gained = 0]_vars

\* C15: a second calculate_daily_impressions call on the same day, with
\* the items and the other snapshots unchanged, leaves today's snapshot as
\* the first call left it.
C15_CalculateTwiceIsOnce ==
    LET total == SumImpressions(x_table)
        once == calculate_daily_impressions(daily, total, hour)
    IN FirstRow(calculate_daily_impressions(once, total, hour), Today(hour))
          = FirstRow(once, Today(hour))

\* C16: after every calculate_daily_impressions call today's snapshot has
\* impressions_gained = max(0, total - yesterday's total) when yesterday has
\* a snapshot and 0 when it has none; it is never negative.
C16_GainIsClampedDifference ==
    [][CalcRan =>
          LET rec == FirstRow(daily', Today(hour))
              total == SumImpressions(x_table)
          IN /\ rec.total_impressions = total
             /\ rec.impressions_gained >= 0
             /\ rec.impressions_gained =
                   IF NoYesterday THEN 0
                   ELSE Max0(total - FirstRow(daily, Today(hour) - 1).total_impressions)]_vars

\* C17: after any computation of today's snapshot, no call of
\* auto_calculate_daily_impressions within the following hour (of the same
\* day) recomputes it.
C17_AutoWaitsAnHour ==
    [][CalcRan =>
          \A h \in hour'..(hour' + HourTicks - 1) :
             Today(h) = Today(hour') => ~AutoRecomputes(daily', h)]_vars

\* C18: a reset_today_impressions call that returns success leaves today's
\* snapshot with impressions_gained = 0 and total_impressions the sum of the
\* items' impressions and every other snapshot as it was; with no snapshot
\* for today it returns a failure and the table is as it was.
C18_ResetTodayOnly ==
    [][result'.op = "reset_today_impressions" =>
          IF result'.ok
          THEN /\ Len(daily') = Len(daily)
               /\ \A j \in 1..Len(daily) :
                     IF daily[j].date = Today(hour)
                     THEN daily'[j] =
                             [daily[j] EXCEPT
                                 !.total_impressions = SumImpressions(x_table),
                                 !.impressions_gained = 0]
                     ELSE daily'[j] = daily[j]
               /\ DailyRows(daily, Today(hour)) # {}
          ELSE /\ DailyRows(daily, Today(hour)) = {}
               /\ daily' = daily]_vars

C18_Witness ==
    /\ result.op = "reset_today_impressions"
    /\ result.ok
    /\ Len(daily) >= 2
    /\ \E j \in 1..Len(daily) :
          /\ daily[j].date # Today(hour)
          /\ daily[j].impressions_gained > 0
    /\ FirstRow(daily, Today(hour)).impressions_gained = 0
    /\ FirstRow(daily, Today(hour)).total_impressions = 500

\* the sum of a metric over the items of a name
RECURSIVE SumOver(_, _, _, _)
SumOver(items, key, name, metric) ==
    IF items = <<>> THEN 0
    ELSE (IF Head(items)[key] = name THEN Head(items)[metric] ELSE 0)
         + SumOver(Tail(items), key, name, metric)

FirstAt(items, key, name) ==
    CHOOSE j \in 1..Len(items) :
        /\ items[j][key] = name
        /\ \A k \in 1..(j - 1) : items[k][key] # name

\* rows is the leaderboard of the items: one row for each name of the
\* items, in descending order of the primary total, equal totals in the
\* order of the names' first items
Ranked(rows, items, key, primary) ==
    /\ {rows[j].name : j \in 1..Len(rows)} = {items[j][key] : j \in 1..Len(items)}
    /\ \A j, k \in 1..Len(rows) : j # k => rows[j].name # rows[k].name
    /\ \A j, k \in 1..Len(rows) :
          j < k =>
             \/ rows[j][primary] > rows[k][primary]
             \/ /\ rows[j][primary] = rows[k][primary]
                /\ FirstAt(items, key, rows[j].name) < FirstAt(items, key, rows[k].name)

\* the tweets of tweets_data.json, one item each
StoreItems(d) ==
    [j \in 1..Len(Items(d)) |->
        [name |-> Items(d)[j].ambassador,
         impressions |-> Items(d)[j].tweet.impressions]]

\* C19: a leaderboard has one row for each ambassador of the items it reads
\* (get_leaderboard: the rows with date_posted, get_reddit_leaderboard: the
\* rows with a Score, get_ambassador_stats: the stored tweets), each metric
\* of the row is the sum over the ambassador's items, the rows are in
\* descending order of the primary sum and rows with equal sums are in the
\* order of the ambassadors' first items.
C19_LeaderboardIsRankedSums ==
    /\ board.fn = "get_leaderboard" =>
          LET items == PostedRows(x_table) IN
          /\ Ranked(board.rows, items, "Ambassador", "total_impressions")
          /\ \A j \in 1..Len(board.rows) :
                LET r == board.rows[j] IN
                /\ r.total_impressions = SumOver(items, "Ambassador", r.name, "Impressions")
                /\ r.total_likes = SumOver(items, "Ambassador", r.name, "Likes")
    /\ board.fn = "get_reddit_leaderboard" =>
          LET items == ScoredRows(reddit_table) IN
          /\ Ranked(board.rows, items, "poster", "total_score")
          /\ \A j \in 1..Len(board.rows) :
                LET r == board.rows[j] IN
                /\ r.total_score = SumOver(items, "poster", r.name, "Score")
                /\ r.total_comments = SumOver(items, "poster", r.name, "Comments")
                /\ r.total_views = SumOver(items, "poster", r.name, "Views")
    /\ board.fn = "get_ambassador_stats" =>
          LET items == StoreItems(tweets_data) IN
          /\ Ranked(board.rows, items, "name", "total_impressions")
          /\ \A j \in 1..Len(board.rows) :
                LET r == board.rows[j] IN
                r.total_impressions = SumOver(items, "name", r.name, "impressions")

C19_Witness ==
    /\ board.fn = "get_leaderboard"
    /\ Len(PostedRows(x_table)) = 2
    /\ Len(board.rows) = 2
    /\ board.rows[1].total_impressions = board.rows[2].total_impressions
    /\ board.rows[1].name = "Odi"
    /\ board.rows[2].name = "Tony"

\* the items get_total_leaderboard reads, with the name in lower case
TotalItems ==
    LET x_data == SelectSeq(PostedRows(x_table), LAMBDA r : r.Impressions > MIN_VIEWS)
        r_data == ScoredRows(reddit_table)
    IN [j \in 1..Len(x_data) |->
           [name |-> LowerName(x_data[j].Ambassador), views |-> x_data[j].Impressions]]
       \o [j \in 1..Len(r_data) |->
           [name |-> LowerName(r_data[j].poster), views |-> r_data[j].Views]]

\* C20: get_total_leaderboard merges the X and Reddit items by the
\* ambassador name in lower case: the names that differ in case only share
\* one row, whose total_views is the sum of the X impressions and the
\* Reddit views of all of them.
C20_MergedByLowerCaseName ==
    board.fn = "get_total_leaderboard" =>
       /\ \A j, k \in 1..Len(board.rows) :
             j # k => LowerName(board.rows[j].name) # LowerName(board.rows[k].name)
       /\ \A i \in 1..Len(TotalItems) :
             \E j \in 1..Len(board.rows) :
                /\ LowerName(board.rows[j].name) = TotalItems[i].name
                /\ board.rows[j].total_views =
                      SumOver(TotalItems, "name", TotalItems[i].name, "views")

\* the items get_total_leaderboard counts, with the name as stored
CountedItems ==
    LET x_data == SelectSeq(PostedRows(x_table), LAMBDA r : r.Impressions > MIN_VIEWS)
        r_data == ScoredRows(reddit_table)
    IN [j \in 1..Len(x_data) |->
           [name |-> x_data[j].Ambassador, views |-> x_data[j].Impressions]]
       \o [j \in 1..Len(r_data) |->
           [name |-> r_data[j].poster, views |-> r_data[j].Views]]

IsTony(name) == LowerName(name) = "tony"

\* C21: in the list of get_total_leaderboard the row whose name is "tony" in
\* lower case is the last row whenever a counted item has such a name,
\* whatever its total_views, and the rows before it are in descending order
\* of total_views.
C21_TonyIsLast ==
    board.fn = "get_total_leaderboard" =>
       LET rows == board.rows IN
       /\ \A j \in 1..Len(rows) : IsTony(rows[j].name) => j = Len(rows)
       /\ (\E i \in 1..Len(CountedItems) : IsTony(CountedItems[i].name)) =>
             /\ rows # <<>>
             /\ IsTony(rows[Len(rows)].name)
       /\ \A j, k \in 1..Len(rows) :
             (j < k /\ ~IsTony(rows[k].name)) =>
                rows[j].total_views >= rows[k].total_views

C21_Witness ==
    /\ board.fn = "get_total_leaderboard"
    /\ Len(board.rows) = 3
    /\ board.rows[3].name = "Tony"
    /\ board.rows[3].total_views > board.rows[2].total_views
    /\ board.rows[1].total_views > board.rows[2].total_views

RECURSIVE SumField(_, _)
SumField(items, metric) ==
    IF items = <<>> THEN 0
    ELSE Head(items)[metric] + SumField(Tail(items), metric)

\* C30: every name of a counted item (an X row with a posting date and more
\* than 500 impressions, a Reddit row with a score) has exactly one row in
\* the list of get_total_leaderboard, and the total_views of the rows sum to
\* the counted X impressions and Reddit views, also when several names are
\* "tony" in lower case.
C30_EveryCountedNameHasOneRow ==
    board.fn = "get_total_leaderboard" =>
       /\ \A i \in 1..Len(CountedItems) :
             Cardinality({j \in 1..Len(board.rows) :
                            board.rows[j].name = CountedItems[i].name}) = 1
       /\ SumField(board.rows, "total_views") = SumField(CountedItems, "views")

\* a smart batch ends with every fetch failed, or with no client
AllFetchesFailed ==
    /\ pc = "smart_loop"
    /\ pc' = "idle"
    /\ attempts # <<>>
    /\ \A j \in 1..Len(attempts) : ~attempts[j].ok

NoClient == pc = "smart_init" /\ pc' = "idle"

\* C22: a smart batch whose fetches all fail (get_tweet raises or returns
\* no data) or whose client cannot be initialised ends normally, makes no
\* stored item final, and leaves every selected item stored, not final and
\* selected again by the next get_tweets_ready_for_update.
C22_FailedBatchChangesNothing ==
    [][(AllFetchesFailed \/ NoClient) =>
          LET ready == get_tweets_ready_for_update(tweets_data', NowLater')
          IN /\ \A t \in AllTweets(tweets_data') :
                   t.final_update =>
                      /\ TweetExists(tweets_data, t.tweet_id)
                      /\ Stored(tweets_data, t.tweet_id).final_update
             /\ \A j \in 1..Len(ready_tweets) :
                   /\ TweetExists(tweets_data', ready_tweets[j].tweet_id)
                   /\ ~Stored(tweets_data', ready_tweets[j].tweet_id).final_update
                   /\ \E r \in 1..Len(ready) :
                         ready[r].tweet_id = ready_tweets[j].tweet_id]_vars

C22_Witness ==
    /\ pc = "smart_loop"
    /\ idx > Len(ready_tweets)
    /\ Len(ready_tweets) = 2
    /\ Len(attempts) = 2
    /\ attempts[1].ok = FALSE
    /\ attempts[2].ok = FALSE

\* C23: with the collector run again and again, quota left and fetches
\* that succeed in the end, every stored item that is not final and 3 days
\* old or more is final in the end.
C23_OldItemEventuallyFinal ==
    \A id \in TweetIds :
       [](( /\ TweetExists(tweets_data, id)
            /\ ~Stored(tweets_data, id).final_update
            /\ Stored(tweets_data, id).submitted_date <= NowLater - ThreeDays )
          => <>( /\ TweetExists(tweets_data, id)
                 /\ Stored(tweets_data, id).final_update ))

\* the stored tweets whose submitted_date is missing or does not parse
Undated == {t \in AllTweets(tweets_data) : ~Parses(t.submitted_date)}

\* C24: an item whose submitted_date is missing or does not parse is in no
\* ready selection and is counted by get_smart_update_stats in total_tweets
\* only: the three classes count the items with a date, and total_tweets is
\* their sum plus the number of items without one.
C24_UndatedOnlyInTotal ==
    /\ board.fn \in {"x_collector.get_tweets_ready_for_update",
                     "app.get_tweets_ready_for_update"} =>
          \A j \in 1..Len(board.rows) :
             \A t \in Undated : board.rows[j].tweet_id # t.tweet_id
    /\ board.fn = "get_smart_update_stats" =>
          LET stats == board.rows[1]
              dated == AllTweets(tweets_data) \ Undated
              young == {t \in dated : t.submitted_date > clock - ThreeDays}
              ready == {t \in dated \ young :
                          /\ ~t.final_update
                          /\ (t.impressions = 0 \/ t.last_updated = t.submitted_date)}
          IN /\ stats.total_tweets = Cardinality(AllTweets(tweets_data))
             /\ stats.tweets_under_3_days = Cardinality(young)
             /\ stats.tweets_ready_for_update = Cardinality(ready)
             /\ stats.tweets_already_updated = Cardinality(dated \ (young \cup ready))
             /\ stats.total_tweets =
                   stats.tweets_under_3_days + stats.tweets_ready_for_update
                   + stats.tweets_already_updated + Cardinality(Undated)

C24_Witness ==
    /\ board.fn = "get_smart_update_stats"
    /\ board.rows[1].total_tweets = 2
    /\ board.rows[1].tweets_ready_for_update = 1
    /\ Cardinality(Undated) = 1

AbortStep == pc = "smart_loop" /\ pc' = "idle" /\ attempts' = attempts

\* C25: when a smart batch is aborted inside its loop, every item it has
\* fetched with success is stored with the fetched impressions and
\* final_update = true (so the next batch does not select it), and the
\* other items are stored as they were.
C25_AbortKeepsFetchedItems ==
    [][AbortStep =>
          \A j \in 1..Len(attempts) :
             /\ TweetExists(tweets_data', attempts[j].tweet_id)
             /\ Stored(tweets_data', attempts[j].tweet_id) =
                   IF attempts[j].ok
                   THEN FinalUpdate(attempts[j].before, attempts[j].impressions,
                                    attempts[j].at)
                   ELSE attempts[j].before]_vars

\* C26: two smart batches never run at the same time: while a batch runs,
\* a batch triggered after it issues no fetch, so no item is fetched by two
\* running batches.
C26_BatchesDoNotOverlap ==
    (pc = "smart_loop" /\ second.pc = "smart_loop") =>
       /\ attempts = <<>> \/ second.attempts = <<>>
       /\ \A j \in 1..Len(attempts), k \in 1..Len(second.attempts) :
             attempts[j].tweet_id # second.attempts[k].tweet_id

\* C27: no increment_api_count call, of the dashboard or of a collector,
\* alone or between the read and the write of another call, makes the
\* stored count of a month smaller, and a call changes the count of its
\* month only.
C27_CountNeverDecreases ==
    [][/\ \A m \in 0..MaxMonth : api_count'[m] >= api_count[m]
       /\ \A p \in IncProcs :
             (inc[p].pc = "read" /\ inc'[p].pc = "idle") =>
                \A m \in 0..MaxMonth :
                   m # inc[p].current_month => api_count'[m] = api_count[m]]_vars

\* C28: add_new_tweet and add_new_reddit_post return True as the first
\* component exactly when the insert returned the created row, which is
\* then the one row added; with an invalid URL, a URL already stored, an
\* insert that returns no data or a store that raises they return False
\* and add no row.
C28_SuccessMeansInserted ==
    [][/\ result'.op = "add_new_tweet" =>
             IF result'.ok
             THEN Len(x_table') = Len(x_table) + 1
             ELSE x_table' = x_table
       /\ result'.op = "add_new_reddit_post" =>
             IF result'.ok
             THEN Len(reddit_table') = Len(reddit_table) + 1
             ELSE reddit_table' = reddit_table]_vars

\* C29: at most one sheet updater started by the dashboard is alive at any
\* time, whatever the runs of the script, the sessions and the buttons, and
\* after a run is_sheet_updater_running has returned true exactly when an
\* updater is alive.
C29_OneSheetUpdater ==
    /\ [](Cardinality(sheet.alive) <= 1)
    /\ [][(sheet'.alive \subseteq sheet.alive /\ sheet'.alive # sheet.alive)
          \/ sheet'.running = (sheet'.alive # {})]_vars

============================================================================
